---- MODULE Spec2Model ----
(***************************************************************************)
(* Model of pose_server.py: a camera thread (camera_worker) that updates   *)
(* the shared dict last_payload field by field, and an asyncio domain with *)
(* the listener task (start_websocket_server), the connection handlers     *)
(* (ws_handler) and the broadcaster (broadcast_loop, get_payload).         *)
(*                                                                         *)
(* The two domains interleave at the granularity the interpreter allows:   *)
(* one dict store or one dict copy of the camera thread / get_payload is   *)
(* one step; the coroutines of the asyncio domain interleave only at their *)
(* awaits.                                                                 *)
(***************************************************************************)
EXTENDS Integers, FiniteSets, Sequences, TLC

\* ---------------------------------------------------------------- bounds
MaxIter == 2      \* producer iterations (frames read) explored
MaxInbound == 1   \* messages the clients send to the server
NumSubs == 2      \* websocket connections that may ever be accepted

Subs == 1..NumSubs
Iters == 1..MaxIter

\* ------------------------------------------------------------- constants
\* Python's None as a dict value; values k >= 1 stand for "the value that
\* producer iteration k computed for this key".
NONE == 0

Keys == {"timestamp", "landmarks", "image_w", "image_h", "mid_hip_z", "fps"}

VARIABLES
    last_payload,   \* main(): the shared dict (a function from its keys)
    stop_event,     \* threading.Event
    CONNECTED,      \* module-level set of websocket connections
    conn,           \* transport state of each connection (websockets library)
    listening,      \* the websockets server accepts connections
    inbound,        \* history: number of client messages the handlers have consumed
    late,           \* history: connections accepted while clients were being closed
    mpc,            \* main(): position
    cpc,            \* camera_worker: position
    iter,           \* camera_worker: number of the frame being processed
    heap,           \* the landmarks lists built so far: heap[r] is what the list
                    \* that reference r names holds (NONE: not built yet)
    exitWhy,        \* history: the path by which camera_worker left ("none" before)
    bpc,            \* broadcast_loop: position
    payload,        \* broadcast_loop: <<>> for None, <<dict>> for a copy
    message,        \* broadcast_loop: json.dumps(payload)
    webs,           \* broadcast_loop: list(CONNECTED) of this tick
    pending,        \* broadcast_loop: sends of the gather not yet finished
    sends,          \* history: the ws.send calls of this tick that have finished
    failed,         \* history: connections whose send failed in the latest fan-out
    spc,            \* start_websocket_server: position
    closeList,      \* start_websocket_server: list(CONNECTED) being closed
    completed,      \* history: <<k, d>>, the last iteration whose update finished
                    \* and whether it had a detection
    atRead,         \* history: value of completed when this tick copied
    reads           \* history: the dicts get_payload has returned since the latest
                    \* store of the camera thread (the last two of them)

vars == <<last_payload, stop_event, CONNECTED, conn, listening, late, inbound, mpc, cpc, iter,
          exitWhy, heap, bpc, payload, message, webs, pending, sends,
          failed, spc, closeList, completed, atRead, reads>>

camVars == <<cpc, iter, exitWhy, heap>>
bcastVars == <<bpc, payload, message, webs, pending, sends, failed, atRead>>
srvVars == <<spc, closeList>>
netVars == <<CONNECTED, conn, listening, late, inbound>>

\* ------------------------------------------------------------ dict helpers
\* d[k] = v on a Python dict
DictSet(d, k, v) == [x \in DOMAIN d \cup {k} |-> IF x = k THEN v ELSE d[x]]

\* d.get(k): None when the key is missing
DictGet(d, k) == IF k \in DOMAIN d THEN d[k] ELSE NONE

\* the value json.dumps writes for d[k]: null for None, the contents of the
\* list for the landmarks (the dict holds a reference to it), the number
\* otherwise
JsonValue(d, k) ==
    CASE d[k] = NONE -> "null"
      [] k = "landmarks" -> ToString(heap[d[k]])
      [] OTHER -> ToString(d[k])

\* json.dumps(dict): one member per key the dict holds
JsonDumps(d) == {<<k, JsonValue(d, k)>> : k \in DOMAIN d}

\* NewList with one list object kept by the producer and refilled in place:
\* every reference handed out so far names the list of iteration k
NewList_InPlace(h, k) == [r \in DOMAIN h |-> IF r <= k THEN k ELSE h[r]]

\* landmarks_to_normalized_list: out = [] ... return out, a list object of its
\* own for iteration k, named by the reference k
NewList(h, k) == [h EXCEPT ![k] = k]

\* the dict a producer iteration k with a detection leaves when it runs alone
FullSnapshot(k) == [x \in Keys |-> k]

Init ==
    /\ last_payload = [x \in {"timestamp", "landmarks"} |-> NONE]
    /\ stop_event = FALSE
    /\ CONNECTED = {}
    /\ conn = [w \in Subs |-> "none"]
    /\ listening = FALSE
    /\ late = {}
    /\ inbound = 0
    /\ mpc = "start"
    /\ cpc = "idle"
    /\ iter = 0
    /\ exitWhy = "none"
    /\ heap = [r \in Iters |-> NONE]
    /\ bpc = "idle"
    /\ payload = <<>>
    /\ message = {}
    /\ webs = {}
    /\ pending = {}
    /\ sends = {}
    /\ failed = {}
    /\ spc = "idle"
    /\ closeList = {}
    /\ completed = <<0, FALSE>>
    /\ atRead = <<0, FALSE>>
    /\ reads = <<>>

\* ------------------------------------------------------------------ main
\* cam_thread.start() and asyncio.run(start_websocket_server(...))
MainStart ==
    /\ mpc = "start"
    /\ mpc' = "run"
    /\ cpc' = "open"
    /\ spc' = "serve"
    /\ UNCHANGED <<heap, last_payload, stop_event, netVars, iter, exitWhy, bcastVars,
                   closeList, completed, reads>>

\* finally: stop_event.set(); cam_thread.join(timeout=2), once asyncio.run has
\* returned or raised
MainFinally ==
    /\ mpc = "run"
    /\ spc \in {"done", "failed"}
    /\ mpc' = "done"
    /\ stop_event' = TRUE
    /\ UNCHANGED <<last_payload, netVars, camVars, bcastVars, srvVars, completed, reads>>

\* ---------------------------------------------------------- camera_worker
\* cv2.VideoCapture(camera_index); not opened: stop_event.set(); return.
\* Then "with mp_pose.Pose(...) as pose:", which is entered before the try: an
\* exception of the estimator's construction leaves camera_worker at once,
\* past the finally clause of the loop
CamOpen ==
    /\ cpc = "open"
    /\ \E outcome \in {"closed", "opened", "estimator"} :
          CASE outcome = "closed" ->
                 cpc' = "done" /\ stop_event' = TRUE /\ exitWhy' = "open"
            [] outcome = "opened" ->
                 cpc' = "loop" /\ UNCHANGED <<stop_event, exitWhy>>
            [] outcome = "estimator" ->
                 cpc' = "done" /\ exitWhy' = "estimator" /\ UNCHANGED stop_event
    /\ UNCHANGED <<heap, last_payload, netVars, mpc, iter, bcastVars, srvVars,
                   completed, reads>>

\* CamLoopExit with a loop that never acts on the event
CamLoopExit_Spins ==
    /\ cpc = "loop"
    /\ stop_event
    /\ UNCHANGED vars

\* while not stop_event.is_set(): leaves the loop once the event is set
CamLoopExit ==
    /\ cpc = "loop"
    /\ stop_event
    /\ cpc' = "finally"
    /\ exitWhy' = "stop"
    /\ UNCHANGED <<heap, last_payload, stop_event, netVars, mpc, iter, bcastVars,
                   srvVars, completed, reads>>

\* CamRead with a failed read handled like a frame without a detection: the
\* loop goes on to the store of the else branch instead of leaving
CamRead_WritesOnFailure ==
    /\ cpc = "loop"
    /\ ~stop_event
    /\ iter < MaxIter
    /\ \E outcome \in {"noframe", "pose", "nopose", "raise"} :
          /\ iter' = IF outcome = "noframe" THEN iter ELSE iter + 1
          /\ cpc' = CASE outcome = "pose" -> "w_timestamp"
                      [] outcome \in {"nopose", "noframe"} -> "w_none"
                      [] OTHER -> "finally"
          /\ exitWhy' = CASE outcome = "noframe" -> "read"
                          [] outcome = "raise" -> "raise"
                          [] OTHER -> exitWhy
          /\ heap' = IF outcome = "pose" THEN NewList(heap, iter + 1) ELSE heap
    /\ UNCHANGED <<last_payload, stop_event, netVars, mpc, bcastVars, srvVars,
                   completed, reads>>

\* while not stop_event.is_set(): ret, frame = cap.read(); if not ret: break;
\* results = pose.process(frame_rgb); if results.pose_landmarks: ... else: ...
\* (an exception raised on the way leaves the loop through the finally clause)
CamRead ==
    /\ cpc = "loop"
    /\ ~stop_event
    /\ iter < MaxIter
    /\ \E outcome \in {"noframe", "pose", "nopose", "raise"} :
          /\ iter' = IF outcome = "noframe" THEN iter ELSE iter + 1
          /\ cpc' = CASE outcome = "pose" -> "w_timestamp"
                      [] outcome = "nopose" -> "w_none"
                      [] OTHER -> "finally"
          /\ exitWhy' = CASE outcome = "noframe" -> "read"
                          [] outcome = "raise" -> "raise"
                          [] OTHER -> exitWhy
          /\ heap' = IF outcome = "pose" THEN NewList(heap, iter + 1) ELSE heap
    /\ UNCHANGED <<last_payload, stop_event, netVars, mpc, bcastVars, srvVars,
                   completed, reads>>

\* CamStore with the store waiting on a lock that get_payload would hold from
\* its test to its copy
CamStore_Locked(at, key, next) ==
    /\ cpc = at
    /\ bpc # "copy"
    /\ last_payload' = DictSet(last_payload, key, iter)
    /\ cpc' = next
    /\ completed' = IF next = "key" THEN <<iter, TRUE>> ELSE completed
    /\ reads' = <<>>
    /\ UNCHANGED <<heap, stop_event, netVars, mpc, iter, exitWhy, bcastVars, srvVars>>

\* one store of the update: last_payload[key] = value of this iteration
CamStore(at, key, next) ==
    /\ cpc = at
    /\ last_payload' = DictSet(last_payload, key, iter)
    /\ cpc' = next
    /\ completed' = IF next = "key" THEN <<iter, TRUE>> ELSE completed
    /\ reads' = <<>>
    /\ UNCHANGED <<heap, stop_event, netVars, mpc, iter, exitWhy, bcastVars, srvVars>>

CamWriteTimestamp == CamStore("w_timestamp", "timestamp", "w_landmarks")
CamWriteLandmarks == CamStore("w_landmarks", "landmarks", "w_image_w")
CamWriteImageW == CamStore("w_image_w", "image_w", "w_image_h")
CamWriteImageH == CamStore("w_image_h", "image_h", "w_mid_hip_z")
CamWriteMidHipZ == CamStore("w_mid_hip_z", "mid_hip_z", "w_fps")
CamWriteFps == CamStore("w_fps", "fps", "key")

\* else: last_payload["landmarks"] = None
CamWriteNone ==
    /\ cpc = "w_none"
    /\ last_payload' = DictSet(last_payload, "landmarks", NONE)
    /\ cpc' = "key"
    /\ completed' = <<iter, FALSE>>
    /\ reads' = <<>>
    /\ UNCHANGED <<heap, stop_event, netVars, mpc, iter, exitWhy, bcastVars, srvVars>>

\* if cv2.waitKey(1) & 0xFF == ord('q'): stop_event.set(); break
CamKey ==
    /\ cpc = "key"
    /\ \E q \in BOOLEAN :
          IF q
          THEN cpc' = "finally" /\ stop_event' = TRUE /\ exitWhy' = "key"
          ELSE cpc' = "loop" /\ UNCHANGED <<stop_event, exitWhy>>
    /\ UNCHANGED <<heap, last_payload, netVars, mpc, iter, bcastVars, srvVars,
                   completed, reads>>

\* CamFinally with a cleanup that resets the event for a later run
CamFinally_Clears ==
    /\ cpc = "finally"
    /\ stop_event' = FALSE
    /\ cpc' = "done"
    /\ UNCHANGED <<heap, last_payload, netVars, mpc, iter, exitWhy, bcastVars, srvVars,
                   completed, reads>>

\* finally: cap.release(); cv2.destroyAllWindows(); stop_event.set()
CamFinally ==
    /\ cpc = "finally"
    /\ stop_event' = TRUE
    /\ cpc' = "done"
    /\ UNCHANGED <<heap, last_payload, netVars, mpc, iter, exitWhy, bcastVars, srvVars,
                   completed, reads>>

Camera ==
    \/ CamOpen \/ CamLoopExit \/ CamRead
    \/ CamWriteTimestamp \/ CamWriteLandmarks \/ CamWriteImageW \/ CamWriteImageH
    \/ CamWriteMidHipZ \/ CamWriteFps \/ CamWriteNone
    \/ CamKey \/ CamFinally

\* ---------------------------------------------------------- event loop
\* broadcast_loop runs from the end of its sleep to its gather without an
\* await (get_payload, json.dumps, list(CONNECTED), the ws.send calls): no
\* other task or callback of the event loop runs in between, only the camera
\* thread does
LoopFree == bpc \notin {"test", "copy", "decide"}

\* ------------------------------------------------- connections, ws_handler
\* Accept with the registry keyed by the peer instead of by the connection
\* object: a peer whose connection was closed is registered again as the
\* same subscriber
Accept_ByPeer(w) ==
    /\ LoopFree
    /\ listening
    /\ conn[w] \in {"none", "closed"}
    /\ w \notin CONNECTED
    /\ conn' = [conn EXCEPT ![w] = "open"]
    /\ CONNECTED' = CONNECTED \cup {w}
    /\ late' = IF spc = "closing" THEN late \cup {w} ELSE late
    /\ UNCHANGED <<inbound, last_payload, stop_event, listening, mpc, camVars, bcastVars,
                   srvVars, completed, reads>>

\* a client connects: the library runs ws_handler(ws) up to its first await,
\* CONNECTED.add(ws) included
Accept(w) ==
    /\ LoopFree
    /\ listening
    /\ conn[w] = "none"
    /\ conn' = [conn EXCEPT ![w] = "open"]
    /\ CONNECTED' = CONNECTED \cup {w}
    /\ late' = IF spc = "closing" THEN late \cup {w} ELSE late
    /\ UNCHANGED <<inbound, last_payload, stop_event, listening, mpc, camVars, bcastVars,
                   srvVars, completed, reads>>

\* the transport stops taking sends (closing handshake under way, write
\* failure) while "async for _ in ws" has not ended yet
ConnBreak(w) ==
    /\ LoopFree
    /\ conn[w] = "open"
    /\ conn' = [conn EXCEPT ![w] = "broken"]
    /\ UNCHANGED <<late, inbound, last_payload, stop_event, CONNECTED, listening, mpc, camVars,
                   bcastVars, srvVars, completed, reads>>

\* the connection is closed (peer close or transport error): the handler's
\* "async for _ in ws" ends or raises
ConnClosed(w) ==
    /\ LoopFree
    /\ conn[w] \in {"open", "broken"}
    /\ conn' = [conn EXCEPT ![w] = "closed"]
    /\ UNCHANGED <<late, inbound, last_payload, stop_event, CONNECTED, listening, mpc, camVars,
                   bcastVars, srvVars, completed, reads>>

\* what a client may send: the server defines no inbound protocol
Contents == {"text", "binary", "malformed"}

\* HandlerRecv with a handler that drops the connection on content it cannot
\* parse
HandlerRecv_DropsMalformed(w) ==
    /\ LoopFree
    /\ w \in CONNECTED
    /\ conn[w] = "open"
    /\ inbound < MaxInbound
    /\ inbound' = inbound + 1
    /\ \E content \in Contents :
          IF content = "malformed"
          THEN conn' = [conn EXCEPT ![w] = "closed"] /\ CONNECTED' = CONNECTED \ {w}
          ELSE UNCHANGED <<conn, CONNECTED>>
    /\ UNCHANGED <<late, last_payload, stop_event, listening, mpc, camVars,
                   bcastVars, srvVars, completed, reads>>

\* async for _ in ws: pass -- one message of the client is taken and dropped
HandlerRecv(w) ==
    /\ LoopFree
    /\ w \in CONNECTED
    /\ conn[w] = "open"
    /\ inbound < MaxInbound
    /\ inbound' = inbound + 1
    /\ \E content \in Contents : UNCHANGED <<conn, CONNECTED>>
    /\ UNCHANGED <<late, last_payload, stop_event, listening, mpc, camVars,
                   bcastVars, srvVars, completed, reads>>

\* except ...: pass / print; finally: CONNECTED.discard(ws)
HandlerExit(w) ==
    /\ LoopFree
    /\ w \in CONNECTED
    /\ conn[w] = "closed"
    /\ CONNECTED' = CONNECTED \ {w}
    /\ UNCHANGED <<late, inbound, last_payload, stop_event, conn, listening, mpc, camVars,
                   bcastVars, srvVars, completed, reads>>

\* ----------------------------------------------- broadcast_loop, get_payload
\* while not stop_event.is_set(): the loop ends once the event is set
BcastLoopExit ==
    /\ bpc = "check"
    /\ stop_event
    /\ bpc' = "done"
    /\ UNCHANGED <<last_payload, stop_event, netVars, mpc, camVars, payload, message,
                   webs, pending, sends, failed, atRead, srvVars, completed, reads>>

\* while not stop_event.is_set(): start = time.time(); get_payload_fn() is called
BcastTick ==
    /\ bpc = "check"
    /\ ~stop_event
    /\ bpc' = "test"
    /\ UNCHANGED <<last_payload, stop_event, netVars, mpc, camVars, payload, message,
                   webs, pending, sends, failed, atRead, srvVars, completed, reads>>

\* get_payload: if last_payload["landmarks"] is None: return None
BcastTest ==
    /\ bpc = "test"
    /\ IF last_payload["landmarks"] = NONE
       THEN /\ payload' = <<>>
            /\ atRead' = completed
            /\ bpc' = "decide"
       ELSE /\ bpc' = "copy"
            /\ UNCHANGED <<payload, atRead>>
    /\ UNCHANGED <<last_payload, stop_event, netVars, mpc, camVars, message, webs,
                   pending, sends, failed, srvVars, completed, reads>>

\* the latest entry of the history of reads, if any
LastRead(r) == IF r = <<>> THEN <<>> ELSE <<r[Len(r)]>>

\* BcastCopy with a read that takes the value out of the mailbox: the copy
\* is followed by last_payload["landmarks"] = None
BcastCopy_Takes ==
    /\ bpc = "copy"
    /\ payload' = <<last_payload>>
    /\ last_payload' = DictSet(last_payload, "landmarks", NONE)
    /\ atRead' = completed
    /\ reads' = Append(LastRead(reads), last_payload)
    /\ bpc' = "decide"
    /\ UNCHANGED <<stop_event, netVars, mpc, camVars, message, webs,
                   pending, sends, failed, srvVars, completed>>

\* get_payload: return dict(last_payload)
BcastCopy ==
    /\ bpc = "copy"
    /\ payload' = <<last_payload>>
    /\ atRead' = completed
    /\ reads' = Append(LastRead(reads), last_payload)
    /\ bpc' = "decide"
    /\ UNCHANGED <<last_payload, stop_event, netVars, mpc, camVars, message, webs,
                   pending, sends, failed, srvVars, completed>>

\* NothingToSend without the test of the copy's landmarks
NothingToSend_NoLandmarksTest(p) == p = <<>>

\* if payload is None or payload.get("landmarks") is None
NothingToSend(p) == p = <<>> \/ DictGet(p[1], "landmarks") = NONE

\* message = json.dumps(payload); webs = list(CONNECTED); the ws.send(message)
\* coroutines are created for the members of webs and handed to gather
BcastDecide ==
    /\ bpc = "decide"
    /\ IF NothingToSend(payload)
       THEN /\ bpc' = "sleep"
            /\ UNCHANGED <<message, webs, pending, failed>>
       ELSE /\ message' = JsonDumps(payload[1])
            /\ failed' = {}
            /\ webs' = CONNECTED
            /\ pending' = CONNECTED
            /\ bpc' = IF CONNECTED = {} THEN "sleep" ELSE "gather"
    /\ UNCHANGED <<last_payload, stop_event, netVars, mpc, camVars, payload, sends,
                   atRead, srvVars, completed, reads>>

\* SendTargets with the fan-out walking the live registry instead of webs
SendTargets_Live == (pending \cup CONNECTED) \ {s.to : s \in sends}

\* the connections the running gather still sends to
SendTargets == pending

\* OnSendFailure of a gather without return_exceptions: the exception leaves
\* the gather and ends broadcast_loop
OnSendFailure_Raise == "crashed"

\* asyncio.gather(..., return_exceptions=True): an exception of one send is
\* kept as that send's result and the gather goes on
OnSendFailure == "gather"

\* BcastSend with the serialization moved into the loop over webs, each send
\* serializing the mailbox anew
BcastSend_Reserializes(w) ==
    /\ bpc = "gather"
    /\ w \in SendTargets
    /\ LET ok == conn[w] = "open" IN
          /\ sends' = sends \cup {[to |-> w, msg |-> JsonDumps(last_payload), ok |-> ok]}
          /\ failed' = IF ok THEN failed ELSE failed \cup {w}
          /\ bpc' = IF ok THEN "gather" ELSE OnSendFailure
    /\ pending' = pending \ {w}
    /\ UNCHANGED <<last_payload, stop_event, netVars, mpc, camVars, payload, message,
                   webs, atRead, srvVars, completed, reads>>

\* one ws.send(message) of the gather finishes: delivered, or it raises
BcastSend(w) ==
    /\ bpc = "gather"
    /\ w \in SendTargets
    /\ LET ok == conn[w] = "open" IN
          /\ sends' = sends \cup {[to |-> w, msg |-> message, ok |-> ok]}
          /\ failed' = IF ok THEN failed ELSE failed \cup {w}
          /\ bpc' = IF ok THEN "gather" ELSE OnSendFailure
    /\ pending' = pending \ {w}
    /\ UNCHANGED <<last_payload, stop_event, netVars, mpc, camVars, payload, message,
                   webs, atRead, srvVars, completed, reads>>

\* await asyncio.gather(...) returns when every send has finished
BcastGathered ==
    /\ bpc = "gather"
    /\ pending = {}
    /\ bpc' = "sleep"
    /\ UNCHANGED <<last_payload, stop_event, netVars, mpc, camVars, payload, message,
                   webs, pending, sends, failed, atRead, srvVars, completed, reads>>

\* await asyncio.sleep(...); the tick's locals are dead from here on
BcastSleep ==
    /\ bpc = "sleep"
    /\ bpc' = "check"
    /\ payload' = <<>>
    /\ message' = {}
    /\ webs' = {}
    /\ atRead' = <<0, FALSE>>
    /\ sends' = {}
    /\ UNCHANGED <<last_payload, stop_event, netVars, mpc, camVars, pending, failed,
                   srvVars, completed, reads>>

Broadcast ==
    \/ BcastLoopExit \/ BcastTick \/ BcastTest \/ BcastCopy \/ BcastDecide
    \/ (\E w \in Subs : BcastSend(w))
    \/ BcastGathered \/ BcastSleep

\* ------------------------------------------------- start_websocket_server
\* server = await websockets.serve(...); on success the broadcaster task is
\* created and the poll loop is entered; a bind failure raises
SrvServe ==
    /\ LoopFree
    /\ spc = "serve"
    /\ \E bound \in BOOLEAN :
          IF bound
          THEN listening' = TRUE /\ bpc' = "check" /\ spc' = "poll"
          ELSE spc' = "failed" /\ UNCHANGED <<listening, bpc>>
    /\ UNCHANGED <<late, inbound, last_payload, stop_event, CONNECTED, conn, mpc, camVars, payload,
                   message, webs, pending, sends, failed, atRead, closeList, completed, reads>>

\* while not stop_event.is_set(): await asyncio.sleep(0.1); then, in the
\* finally clause, the for loop takes list(CONNECTED)
SrvPoll ==
    /\ LoopFree
    /\ spc = "poll"
    /\ stop_event
    /\ spc' = "closing"
    /\ closeList' = CONNECTED
    /\ UNCHANGED <<last_payload, stop_event, netVars, mpc, camVars, bcastVars,
                   completed, reads>>

\* for ws in list(CONNECTED): await ws.close()
SrvCloseClient(w) ==
    /\ LoopFree
    /\ spc = "closing"
    /\ w \in closeList
    /\ conn' = [conn EXCEPT ![w] = "closed"]
    /\ closeList' = closeList \ {w}
    /\ UNCHANGED <<late, inbound, last_payload, stop_event, CONNECTED, listening, mpc, camVars,
                   bcastVars, spc, completed, reads>>

\* SrvServerClose that closes the connections and leaves the listener open
SrvServerClose_KeepsListening ==
    /\ LoopFree
    /\ spc = "closing"
    /\ closeList = {}
    /\ conn' = [w \in Subs |-> IF conn[w] \in {"open", "broken"} THEN "closed" ELSE conn[w]]
    /\ spc' = "wait_closed"
    /\ UNCHANGED <<late, inbound, last_payload, stop_event, CONNECTED, listening, mpc, camVars,
                   bcastVars, closeList, completed, reads>>

\* server.close(): the listener stops accepting and the library closes every
\* connection that is still open
SrvServerClose ==
    /\ LoopFree
    /\ spc = "closing"
    /\ closeList = {}
    /\ listening' = FALSE
    /\ conn' = [w \in Subs |-> IF conn[w] \in {"open", "broken"} THEN "closed" ELSE conn[w]]
    /\ spc' = "wait_closed"
    /\ UNCHANGED <<late, inbound, last_payload, stop_event, CONNECTED, mpc, camVars, bcastVars,
                   closeList, completed, reads>>

\* WaitClosedReturns when the wait for the handlers is left out
WaitClosedReturns_NoWait == TRUE

\* await server.wait_closed(): returns when every connection handler has ended
WaitClosedReturns == CONNECTED = {}

\* await server.wait_closed(); broadcaster.cancel(); await broadcaster
SrvWaitClosed ==
    /\ LoopFree
    /\ spc = "wait_closed"
    /\ WaitClosedReturns
    /\ spc' = "done"
    /\ bpc' = IF bpc = "done" THEN "done" ELSE "cancelled"
    /\ pending' = {}
    /\ UNCHANGED <<last_payload, stop_event, netVars, mpc, camVars, payload, message,
                   webs, sends, failed, atRead, closeList, completed, reads>>

Server ==
    \/ SrvServe \/ SrvPoll
    \/ (\E w \in Subs : SrvCloseClient(w))
    \/ SrvServerClose \/ SrvWaitClosed

Network == \E w \in Subs : Accept(w) \/ ConnBreak(w) \/ ConnClosed(w) \/ HandlerRecv(w)

Handlers == \E w \in Subs : HandlerExit(w)

Main == MainStart \/ MainFinally

Next == Main \/ Camera \/ Broadcast \/ Server \/ Network \/ Handlers

Spec == Init /\ [][Next]_vars

TypeOK ==
    /\ DOMAIN last_payload \subseteq Keys
    /\ \A k \in DOMAIN last_payload : last_payload[k] \in 0..MaxIter
    /\ stop_event \in BOOLEAN
    /\ CONNECTED \subseteq Subs
    /\ conn \in [Subs -> {"none", "open", "broken", "closed"}]
    /\ listening \in BOOLEAN
    /\ late \subseteq Subs
    /\ inbound \in 0..MaxInbound
    /\ mpc \in {"start", "run", "done"}
    /\ cpc \in {"idle", "open", "loop", "w_timestamp", "w_landmarks",
                "w_image_w", "w_image_h", "w_mid_hip_z", "w_fps", "w_none", "key",
                "finally", "done"}
    /\ iter \in 0..MaxIter
    /\ exitWhy \in {"none", "open", "estimator", "read", "raise", "key", "stop"}
    /\ heap \in [Iters -> 0..MaxIter]
    /\ bpc \in {"idle", "check", "test", "copy", "decide", "gather", "sleep", "done",
                "cancelled", "crashed"}
    /\ webs \subseteq Subs
    /\ pending \subseteq Subs
    /\ failed \subseteq Subs
    /\ spc \in {"idle", "serve", "failed", "poll", "closing", "wait_closed", "done"}
    /\ closeList \subseteq Subs

\* fairness: each thread and each task of the event loop keeps being scheduled
\* and no await blocks forever; the clients (Network) owe nothing
FairSpec ==
    /\ Spec
    /\ WF_vars(Main)
    /\ WF_vars(Camera)
    /\ WF_vars(Broadcast)
    /\ WF_vars(Server)
    /\ WF_vars(Handlers)

\* ------------------------------------------------------------------ claims
\* the landmarks member of a serialized message that carries a detection
HasLandmarks(m) == \E k \in Iters : <<"landmarks", ToString(k)>> \in m

\* C1: every value get_payload returns is None or a snapshot whose six fields
\* all come from one producer iteration.
C1_AtomicRead ==
    payload = <<>> \/ \E k \in Iters : payload[1] = FullSnapshot(k)

\* C2: every message broadcast_loop sends carries non-null landmarks; a tick
\* whose read gave None or a dict with landmarks None starts no send.
C2_NoNullBroadcast ==
    /\ \A s \in sends : HasLandmarks(s.msg)
    /\ pending # {} =>
          /\ payload # <<>>
          /\ "landmarks" \in DOMAIN payload[1]
          /\ payload[1]["landmarks"] # NONE
          /\ HasLandmarks(message)

\* C2 witness: the producer cleared landmarks between get_payload's test and
\* its copy, the tick went idle with a subscriber registered and nothing sent.
C2_Witness ==
    /\ bpc = "sleep"
    /\ payload # <<>>
    /\ payload[1]["landmarks"] = NONE
    /\ CONNECTED # {}
    /\ sends = {}

\* C3: a failed send neither ends broadcast_loop nor aborts the fan-out: when
\* the gather has returned, every connection captured for the tick has had its
\* send of this tick's message, delivered if the connection is still open.
C3_FaultIsolation ==
    /\ bpc # "crashed"
    /\ (bpc = "sleep" /\ webs # {}) =>
          \A w \in webs : \E s \in sends :
              /\ s.to = w
              /\ s.msg = message
              /\ conn[w] = "open" => s.ok

\* C3 witness: a fan-out has returned in which one send failed and one was
\* delivered.
C3_Witness ==
    /\ bpc = "sleep"
    /\ \E s1, s2 \in sends : ~s1.ok /\ s2.ok

\* C4: a subscriber whose send failed in a fan-out is not in the set the
\* following fan-out captures.
C4_FailedSubscriberRemoved ==
    [][(bpc = "decide" /\ bpc' = "gather") => (webs' \cap failed = {})]_vars

\* C5: the message a tick sends is the snapshot of the producer iteration
\* whose update was the last one finished when the tick read.
C5_LatestDelivered ==
    bpc = "gather" => (atRead[2] /\ message = JsonDumps(FullSnapshot(atRead[1])))

\* C6: wherever the producer stands at a store of last_payload the store can
\* be taken, and wherever get_payload stands at its test or copy the read can
\* be taken, whatever the other thread, the fan-out or the clients do; the
\* handoff is the one dict, with no queue behind it.
C6_NeverBlocks ==
    /\ cpc = "w_timestamp" => ENABLED CamWriteTimestamp
    /\ cpc = "w_landmarks" => ENABLED CamWriteLandmarks
    /\ cpc = "w_image_w" => ENABLED CamWriteImageW
    /\ cpc = "w_image_h" => ENABLED CamWriteImageH
    /\ cpc = "w_mid_hip_z" => ENABLED CamWriteMidHipZ
    /\ cpc = "w_fps" => ENABLED CamWriteFps
    /\ cpc = "w_none" => ENABLED CamWriteNone
    /\ bpc = "test" => ENABLED BcastTest
    /\ bpc = "copy" => ENABLED BcastCopy
    /\ DOMAIN last_payload \subseteq Keys

\* C6 witness: the producer stands at a store while get_payload is between its
\* test and its copy.
C6_Witness ==
    /\ cpc = "w_image_w"
    /\ bpc = "copy"

\* C7: the fan-out's targets are fixed when it starts: it captures CONNECTED,
\* keeps that set while the gather runs, and every send that finishes is to a
\* member of it, once.
C7_FanOutSetFixed ==
    [][/\ (bpc = "decide" /\ bpc' = "gather") => (webs' = CONNECTED /\ pending' = CONNECTED)
       /\ (bpc = "gather" /\ bpc' = "gather") => webs' = webs
       /\ \A s \in sends' \ sends : s.to \in webs /\ s.to \in pending /\ s.to \notin pending'
      ]_vars

\* C7 witness: a connection registered while the gather was running and sends
\* of that gather have finished.
C7_Witness ==
    /\ bpc = "gather"
    /\ CONNECTED \ webs # {}
    /\ sends # {}

\* the three loops have ended
Terminated ==
    /\ cpc = "done"
    /\ bpc \in {"idle", "done", "cancelled"}
    /\ spc \in {"done", "failed"}

\* C8: once the stop signal is set, camera_worker's loop, broadcast_loop and
\* start_websocket_server all end.
C8_ShutdownTerminates == stop_event ~> Terminated

\* C8 witness: all three loops have run and ended after the stop signal.
C8_Witness ==
    /\ stop_event
    /\ cpc = "done"
    /\ bpc = "done"
    /\ spc = "done"

\* C9: when start_websocket_server's shutdown sequence has finished, no
\* connection is open and CONNECTED is empty.
C9_AllClosedOnShutdown ==
    spc = "done" => (CONNECTED = {} /\ \A w \in Subs : conn[w] \in {"none", "closed"})

\* C9 witness: the shutdown sequence finished after a connection had been
\* accepted while it was closing the others.
C9_Witness ==
    /\ spc = "done"
    /\ late # {}

SourceFailed == exitWhy \in {"open", "read"}

\* C11: a failure of the frame source is fatal to camera_worker. The step on
\* which the camera fails writes nothing to last_payload and leaves the loop;
\* from then on the worker stores nothing, reads no further frame and can
\* only run its cleanup, and the step by which it returns has the stop event
\* set by the worker itself.
C11_SourceFailureFatal ==
    [][ /\ (SourceFailed' /\ ~SourceFailed) =>
              (last_payload' = last_payload /\ iter' = iter
               /\ cpc' \in {"finally", "done"})
        /\ SourceFailed =>
              (/\ last_payload' = last_payload
               /\ iter' = iter
               /\ cpc' \in {"finally", "done"}
               /\ exitWhy' = exitWhy
               /\ (cpc = "finally" /\ cpc' = "done") => stop_event')
        /\ (exitWhy' = "open" /\ exitWhy = "none") => (cpc' = "done" /\ stop_event')
      ]_vars

\* a read failed after one frame had been processed, the worker has returned
\* and main's cleanup has not run
C11_Witness ==
    /\ exitWhy = "read"
    /\ cpc = "done"
    /\ iter = 1
    /\ mpc = "run"
    /\ stop_event

\* ---------------------------------------------------------------- C12
\* camera_worker has entered its while loop at some point
ProducerLoopStarted ==
    cpc \notin {"idle", "open"} /\ exitWhy \notin {"open", "estimator"}

\* C12: when websockets.serve fails to bind, no loop has started yet: the
\* camera loop has not been entered, broadcast_loop has not been created and
\* no connection handler has run.
C12_BindFailureBeforeLoops ==
    [][ (spc = "serve" /\ spc' = "failed") =>
           (~ProducerLoopStarted /\ bpc = "idle" /\ CONNECTED = {}) ]_vars

\* ---------------------------------------------------------------- C13
\* the JSON object m has a member k whose value is a number (an array, for
\* the landmarks), or null where the wire format allows null
HasTypedField(m, k) ==
    \/ \E v \in Iters : <<k, ToString(v)>> \in m
    \/ k = "landmarks" /\ <<k, "null">> \in m

\* C13: every message handed to ws.send holds all six fields of the wire
\* payload, each with a value of its type.
C13_AllSixFields ==
    \A s \in sends : \A k \in Keys : HasTypedField(s.msg, k)

\* ---------------------------------------------------------------- C14
\* C14: get_payload only peeks. Its two steps (the landmarks test, the copy)
\* leave last_payload as it was; the reads that no store of the camera thread
\* separates return the same dict (or None, where the read before had nothing
\* to send); and what a tick sends is the serialization of the dict it read.
C14_PeekSemantics ==
    [][ /\ ((bpc \in {"test", "copy"}) /\ bpc' # bpc) => (last_payload' = last_payload)
        /\ \A i, j \in DOMAIN reads' : reads'[i] = reads'[j]
        /\ (bpc = "copy" /\ bpc' = "decide") => (payload' = LastRead(reads'))
        /\ (bpc = "test" /\ bpc' = "decide" /\ reads # <<>>) =>
              NothingToSend(LastRead(reads))
        /\ (bpc = "decide" /\ bpc' = "gather") => (message' = JsonDumps(payload[1]))
      ]_vars

\* the second of two reads with no store in between has returned, and its
\* message has been sent
C14_Witness ==
    /\ Len(reads) = 2
    /\ bpc = "gather"
    /\ payload = <<reads[2]>>
    /\ \E s \in sends : s.ok /\ s.msg = JsonDumps(reads[1])

\* ---------------------------------------------------------------- C15
\* C15: a message received from a client is dropped. The step that consumes
\* it changes neither the registry, nor the state of any connection, nor
\* last_payload, nor the stop event; and a connection leaves CONNECTED only
\* once it is closed (by the peer, locally, or by a transport error).
C15_InboundDiscarded ==
    [][ /\ (inbound' # inbound) =>
              (/\ CONNECTED' = CONNECTED
               /\ conn' = conn
               /\ last_payload' = last_payload
               /\ stop_event' = stop_event)
        /\ \A w \in CONNECTED \ CONNECTED' : conn[w] = "closed"
      ]_vars

\* the only connection ever accepted has sent a message and is still open
\* and registered
C15_Witness ==
    /\ inbound = MaxInbound
    /\ \E w \in Subs :
          /\ CONNECTED = {w}
          /\ conn[w] = "open"
          /\ \A v \in Subs \ {w} : conn[v] = "none"

\* ---------------------------------------------------------------- C16
\* C16: a subscriber goes from Open to Closed and stays there. A connection
\* enters CONNECTED only on the step that accepts it, as a connection never
\* seen before; a connection once accepted never counts as new again, a
\* failing one can only go on to closed, and a closed one stays closed, so a
\* connection that has left CONNECTED is never a member again.
C16_ClosedTerminal ==
    [][ \A w \in Subs :
          /\ (w \in CONNECTED' \ CONNECTED) => (conn[w] = "none" /\ conn'[w] = "open")
          /\ (conn[w] # "none") => (conn'[w] # "none")
          /\ (conn[w] = "broken") => (conn'[w] \in {"broken", "closed"})
          /\ (conn[w] = "closed") => (conn'[w] = "closed" /\ w \notin CONNECTED' \ CONNECTED)
      ]_vars

\* one connection has been closed and removed while the listener still
\* accepts, and a different connection is registered and open
C16_Witness ==
    /\ listening
    /\ \E w, v \in Subs :
          /\ conn[w] = "closed" /\ w \notin CONNECTED
          /\ conn[v] = "open" /\ v \in CONNECTED

\* ---------------------------------------------------------------- C17
\* C17: the stop event is set once and for all. No step takes it from set to
\* unset, whichever component runs (the camera's failure paths, the key
\* press, the camera's and main's cleanup), so a further set leaves it set.
C17_StopStaysSet ==
    [][ stop_event => stop_event' ]_vars

\* the event has been set by the key press, and again by the camera's
\* cleanup and by main's
C17_Witness ==
    /\ stop_event
    /\ exitWhy = "key"
    /\ cpc = "done"
    /\ mpc = "done"

\* ---------------------------------------------------------------- C18
\* the connections this tick has sent to
SentTo == {s.to : s \in sends}

\* C18: a tick that sends serializes once and sends that one message to each
\* member of webs once. The message is assigned only where json.dumps runs
\* and is not touched while the sends are under way; webs is the registry of
\* the moment the tick decides to send; every send of the tick carries the
\* message and goes to a member of webs not sent to before in this tick;
\* and when the gather has returned each member of webs has got its one send.
C18_OneMessagePerTick ==
    [][ /\ (message' # message) => (bpc \in {"decide", "sleep"})
        /\ (bpc = "decide" /\ bpc' = "gather") => (webs' = CONNECTED)
        /\ \A s \in sends' : s.msg = message' /\ s.to \in webs'
        /\ \A s \in sends' \ sends : s.to \notin SentTo /\ pending' = pending \ {s.to}
        /\ (bpc = "gather" /\ bpc' = "gather" /\ pending' # pending) =>
              (Cardinality(sends') = Cardinality(sends) + 1
               /\ Cardinality(SentTo') = Cardinality(sends'))
        /\ (bpc = "gather" /\ bpc' = "sleep") =>
              (SentTo = webs /\ Cardinality(sends) = Cardinality(webs))
      ]_vars

\* a fan-out to two connections has ended while the camera thread stored
\* into last_payload: both got the message, once each
C18_Witness ==
    /\ bpc = "sleep"
    /\ Cardinality(webs) = 2
    /\ Cardinality(sends) = 2
    /\ \A s \in sends : s.ok /\ s.msg = message /\ s.msg # JsonDumps(last_payload)

\* ---------------------------------------------------------------- C19
\* C19: whenever camera_worker has ended, by whichever path, the stop event
\* is set: no state has the worker gone and the event unset.
C19_StopSetOnExit ==
    cpc = "done" => stop_event

\* ---------------------------------------------------------------- C20
\* what json.dumps makes of the tick's payload in the current state
Serialized == IF payload = <<>> THEN {} ELSE JsonDumps(payload[1])

\* C20: what a tick has read is out of the producer's reach. From the read
\* to the end of the fan-out no step changes the tick's payload or what it
\* serializes to, the landmarks list it refers to included; the message is
\* that serialization, it stays as it is while the sends are under way, and
\* every send of the tick carries it.
C20_ReadIsolated ==
    [][ /\ ((bpc \in {"decide", "gather"}) /\ bpc' \in {"decide", "gather", "sleep"}) =>
              (payload' = payload /\ Serialized' = Serialized)
        /\ (bpc = "decide" /\ bpc' = "gather") => (message' = Serialized)
        /\ (bpc = "gather" /\ bpc' \in {"gather", "sleep"}) => (message' = message)
        /\ \A s \in sends' : s.msg = Serialized'
      ]_vars

\* a send has finished after the camera thread built a new landmarks list and
\* stored it over the one the tick had read
C20_Witness ==
    /\ bpc = "gather"
    /\ \E s \in sends : s.ok /\ s.msg = Serialized
    /\ DictGet(last_payload, "landmarks") # NONE
    /\ last_payload["landmarks"] # payload[1]["landmarks"]
    /\ atRead[1] < completed[1]

====
